---- MODULE Spec2Model ----
(***************************************************************************)
(* Flash-sale admission and inventory subsystem.                           *)
(*                                                                         *)
(* One product of the durable ledger, its Redis stock key, the per-buyer   *)
(* reservation keys, and the purchase requests (POST /api/seckill) that    *)
(* run concurrently on the server's event loop.  Every await on Redis, on  *)
(* MongoDB or on the broker is one step of a request; the code between two *)
(* awaits runs with the step that precedes it.                             *)
(***************************************************************************)
EXTENDS Integers, Sequences, FiniteSets, TLC

\* ---- bounds of the model ------------------------------------------------
NumReqs == 2
NumUsers == 2
MaxStock == 1
NumCalls == 2
MaxDeliveries == 5

\* ---- program constants --------------------------------------------------
MAX_CONNECTION_ATTEMPTS == 5
\* processMessage requeues a message while its retryCount is below 3
MAX_RETRY == 3
maxReconnectAttempts == 5
MaxPending == 2
NumSockets == 3
MaxSent == 2
NumProducts == 2
MaxQueued == 2
MaxConsumers == 1
MaxQuantity == 2
NumDeliveries == 3

Reqs == 1..NumReqs
\* an order is inserted by one request: the ids the orders can take
OrderIds == 1..NumReqs
Users == 1..NumUsers
Calls == 1..NumCalls
Sockets == 1..NumSockets
Products == 1..NumProducts
Deliveries == 1..NumDeliveries
QueueNames == {"order.processing", "seckill.notifications", "stats.update"}

VARIABLES
    dbStock,             \* Product.stock in collection 12a2d3dc_products
    productActive,       \* Product.status = 'active'
    orders,              \* collection 12a2d3dc_orders, in insertion order
    published,           \* order ids accepted by the order-processing queue
    stockKey,            \* Redis key product:stock:<id>: <<>> absent, <<v>> value v
    locks,               \* buyers u whose key seckill:lock:<id>:<u> exists
    redisOpen,           \* redis && redis.isOpen
    connectionAttempts,  \* module variable connectionAttempts
    req,                 \* the purchase requests: position and locals
    syncAll,             \* the admin sync-stock request: position
    now,                 \* the clock against the product's [startTime, endTime)
    queue,               \* MockRabbitMQ.queues['order.processing']
    scheduled,           \* processMessage callbacks queued by setImmediate
    handler,             \* the consumer's handler for each order's message
    deliveries,          \* times each order's message was handed to the consumer
    orderStatusSent,     \* order_status messages passed to sendToUser, per order
    mockLocks,           \* MockRedis.data: buyers whose lock key is in the map
    mockExpired,         \* MockRedis.expiry: lock keys whose expiry time has passed
    mockCall,            \* calls of the in-memory acquireSeckillLock
    amqp,                \* RabbitMQService: its fields, timers and pending calls
    wss,                 \* WebSocketServiceClass: sockets, connections map, writes
    bulk,                \* syncAllStock over the catalogue: ledger, counters, loop
    mq,                  \* MockRabbitMQ: the queues and consumers maps by queue name
    mem,                 \* in-memory stock manager: the MockRedis stock key and decrementStock calls
    rc,                  \* initializeRedisClient: the client, connectionAttempts, retry timers
    cons                 \* deliveries to the consumers registered with RabbitMQService

settleVars == <<queue, scheduled, handler, deliveries, orderStatusSent>>

mainVars == <<dbStock, productActive, now, orders, published, stockKey, locks,
              redisOpen, connectionAttempts, req, syncAll, settleVars>>

mockVars == <<mockLocks, mockExpired, mockCall>>

\* the services that the purchase path does not touch
restVars == <<amqp, wss, bulk, mq, mem, rc, cons>>

vars == <<mainVars, mockVars, restVars>>

ledgerVars == <<dbStock, productActive, now>>
redisConn == <<redisOpen, connectionAttempts>>

\* ---- Redis commands on the stock key --------------------------------------
RedisDecr(k) == IF k = <<>> THEN <<-1>> ELSE <<k[1] - 1>>
RedisIncr(k) == IF k = <<>> THEN <<1>> ELSE <<k[1] + 1>>

\* ---- a purchase request ---------------------------------------------------
\* pc: the await of the handler the request is at; sub, syn: the await inside
\* the SeckillStockManager method and inside syncStockFromDB it is at.
\* productStock is product.stock as read by syncStockFromDB.  storeFault
\* records that a Redis operation of this request's decrementStock call
\* failed; after is the set of requests answered before this one arrived.
\* (currentRedisStock of seckill.ts:49 is only logged and is not kept.)
\* lockFault records that the Redis operation of this request's
\* acquireSeckillLock call failed; released what became of the DEL of its
\* releaseSeckillLock call ("no": not executed); net is the number of DECR
\* less the number of INCR this request has applied to the stock key;
\* ownStock is the value its successful DECR returned (newStock, part_010:208).
IdleReq ==
    [pc |-> "idle", sub |-> "-", syn |-> "-", user |-> 0, productStock |-> 0,
     lockAcquired |-> FALSE, stockSuccess |-> FALSE, orderId |-> 0,
     finalStock |-> 0, resp |-> "none", storeFault |-> FALSE, after |-> {},
     lockFault |-> FALSE, released |-> "no", net |-> 0, ownStock |-> 0,
     quantity |-> 1]

At(q, pc, sub, syn) == [q EXCEPT !.pc = pc, !.sub = sub, !.syn = syn]

\* the response is sent and the handler returns
Respond(q, m) == [At(q, "done", "-", "-") EXCEPT !.resp = m, !.productStock = 0]

\* an exception reaches the handler's catch block (seckill.ts:125)
RouteCatch(q) == [At(q, "catch", "-", "-") EXCEPT !.productStock = 0]

\* getStock returns v to the handler: the pre-check (seckill.ts:49), whose
\* value is logged, or the final read sent as stockLeft (seckill.ts:109-123)
GetStockReturn(q, v) ==
    IF q.pc = "getStock1"
    THEN [At(q, "acquire", "-", "-") EXCEPT !.productStock = 0]
    ELSE Respond([q EXCEPT !.finalStock = v], "success")

\* DecrementReturn as it would be if the handler did not test stockSuccess
DecrementReturnUnchecked(q, b) ==
    [At(q, "insertOrder", "-", "-") EXCEPT !.stockSuccess = b, !.productStock = 0]

\* decrementStock returns b to the handler (seckill.ts:64-73)
DecrementReturn(q, b) ==
    IF b
    THEN [At(q, "insertOrder", "-", "-") EXCEPT !.stockSuccess = TRUE, !.productStock = 0]
    ELSE [At(q, "release400", "-", "-") EXCEPT !.productStock = 0]

\* DecrementCatch as it would be if the catch block reported success
DecrementCatchReportsSuccess(q) == DecrementReturn([q EXCEPT !.storeFault = TRUE], TRUE)

\* the catch block of decrementStock (part_010:237-247)
DecrementCatch(q) == DecrementReturn([q EXCEPT !.storeFault = TRUE], FALSE)

\* SyncReturn as it would be if decrementStock called itself again after the
\* reconciliation
SyncReturnRestarts(q, v) ==
    IF q.sub = "syncD"
    THEN IF v > 0
         THEN [At(q, "decrement", "decr", "-") EXCEPT !.productStock = 0]
         ELSE DecrementReturn(q, FALSE)
    ELSE GetStockReturn(q, v)

\* syncStockFromDB returns v to its caller: getStock (part_010:257, 277) or
\* decrementStock (part_010:219-235)
SyncReturn(q, v) ==
    IF q.sub = "syncD"
    THEN IF v > 0
         THEN [At(q, "decrement", "decr2", "-") EXCEPT !.productStock = 0]
         ELSE DecrementReturn(q, FALSE)
    ELSE GetStockReturn(q, v)

\* ensureConnected throws at the entry of syncStockFromDB (part_010:162),
\* outside its try: the caller's catch takes it
SyncThrow(q) ==
    CASE q.sub = "syncA" -> At(q, q.pc, "syncB", "find")
      [] q.sub = "syncB" -> RouteCatch(q)
      [] OTHER -> DecrementCatch(q)

\* positions at which a method begins with `await ensureConnected()`
AtEntry(q) ==
    \/ q.sub = "get"
    \/ q.syn \in {"find", "set"}
    \/ q.pc \in {"acquire", "release400", "catch"}
    \/ q.pc = "decrement" /\ q.sub = "decr"

\* what happens to the request when that ensureConnected throws
EntryThrow(q) ==
    CASE q.syn = "find" -> SyncThrow(q)
      [] q.syn = "set" ->
            SyncReturn(IF q.sub = "syncD" THEN [q EXCEPT !.storeFault = TRUE] ELSE q, 0)
      [] q.pc = "catch" -> Respond(q, "error")
      [] q.pc = "decrement" -> RouteCatch([q EXCEPT !.storeFault = TRUE])
      [] q.pc = "acquire" -> RouteCatch([q EXCEPT !.lockFault = TRUE])
      [] OTHER -> RouteCatch(q)

\* positions at which the next step is a Redis command
AtCommand(q) ==
    \/ q.sub \in {"get", "decr", "incr", "decr2", "incr2"}
    \/ q.syn = "set"
    \/ q.pc \in {"acquire", "release400", "catch"}

\* CommandThrow as it would be if acquireSeckillLock's catch returned true
CommandThrowAdmits(q) ==
    CASE q.sub = "get" -> At(q, q.pc, "syncB", "find")
      [] q.syn = "set" ->
            SyncReturn(IF q.sub = "syncD" THEN [q EXCEPT !.storeFault = TRUE] ELSE q, 0)
      [] q.pc = "acquire" ->
            [At(q, "decrement", "decr", "-") EXCEPT !.lockFault = TRUE, !.lockAcquired = TRUE]
      [] q.pc = "release400" -> Respond([q EXCEPT !.released = "failed"], "sold_out")
      [] q.pc = "catch" -> Respond([q EXCEPT !.released = "failed"], "error")
      [] OTHER -> DecrementCatch(q)

\* what happens to the request when that command throws: each method's own
\* catch block takes it (part_010:296-304 returns false, 319-326 logs)
CommandThrow(q) ==
    CASE q.sub = "get" -> At(q, q.pc, "syncB", "find")
      [] q.syn = "set" ->
            SyncReturn(IF q.sub = "syncD" THEN [q EXCEPT !.storeFault = TRUE] ELSE q, 0)
      [] q.pc = "acquire" -> Respond([q EXCEPT !.lockFault = TRUE], "already")
      [] q.pc = "release400" -> Respond([q EXCEPT !.released = "failed"], "sold_out")
      [] q.pc = "catch" -> Respond([q EXCEPT !.released = "failed"], "error")
      [] OTHER -> DecrementCatch(q)

\* the guard of initializeRedisClient that takes a connection attempt to be
\* in progress (part_010:37)
AttemptInProgress ==
    connectionAttempts > 0 /\ connectionAttempts < MAX_CONNECTION_ATTEMPTS

IdleCall == [pc |-> "idle", user |-> 0, exists |-> FALSE, result |-> FALSE]

\* RabbitMQService after construction: not connected (it connects on first
\* use).  up: the broker accepts connections; connect: the await the one
\* connect() call past the guard is at; closeChan, closeConn: handleReconnect
\* calls awaiting channel.close() and connection.close(); events: 'error' and
\* 'close' events of a lost connection not yet handled; timers: pending
\* reconnect timers; sinceDown: timers set since the broker went down;
\* pub: a publishMessage call.
IdlePublish == [pc |-> "idle", exhausted |-> FALSE, result |-> "none"]

InitAmqp ==
    [up |-> TRUE, connection |-> FALSE, channel |-> FALSE, isConnecting |-> FALSE,
     reconnectAttempts |-> 0, timers |-> 0, connect |-> "idle", closeChan |-> 0,
     closeConn |-> 0, events |-> 0, sinceDown |-> 0, early |-> 0,
     unspaced |-> FALSE, burst |-> 0, pub |-> IdlePublish]

\* no push operation has run in the last step
NoPush == [kind |-> "none", user |-> 0]

\* no socket has been upgraded, the connections map is empty (0: no entry)
InitWss ==
    [sock |-> [s \in Sockets |-> [readyState |-> "NEW", owner |-> 0]],
     connections |-> [u \in Users |-> 0],
     sent |-> [s \in Sockets |-> 0],
     op |-> NoPush]

\* a decrementStock call of the in-memory variant that has not started
IdleMemCall == [pc |-> "idle", currentStock |-> <<>>, before |-> <<>>, result |-> FALSE]

\* the in-memory stock manager at start: MockRedis holds no stock key. The
\* key holds the decimal digits of an integer (JSON.stringify of a number and
\* toString give the same digits), written here as the integer
InitMem == [data |-> <<>>, call |-> [c \in Calls |-> IdleMemCall]]

\* the module of the Redis client before it is loaded: redis is undefined,
\* connectionAttempts is 0. reachable: the server accepts connections;
\* recovered: it does so for good; connecting: a client.connect() is awaited;
\* failed: a connect() has been rejected; skipped: a retry timer fired and
\* its call returned without connecting; ensure: the ensureConnected calls
InitRc ==
    [loaded |-> FALSE, reachable |-> TRUE, recovered |-> FALSE, open |-> FALSE,
     attempts |-> 0, connecting |-> FALSE, timers |-> 0, failed |-> FALSE,
     skipped |-> FALSE, ensure |-> [c \in Calls |-> "idle"]]

\* a message the broker has not delivered yet
Undelivered == [pc |-> "ready", queue |-> "none", valid |-> TRUE, acks |-> 0, nacks |-> 0]

InitCons == [d \in Deliveries |-> Undelivered]

\* a name neither map holds
NoQueue == [exists |-> FALSE, messages |-> <<>>, consumers |-> 0, scheduled |-> 0,
            inflight |-> <<>>]

\* what createQueue sets for a name: no message, no consumer
EmptyQueue == [NoQueue EXCEPT !.exists = TRUE]

\* a new MockRabbitMQ: both maps are empty
InitMq == [q |-> [n \in QueueNames |-> NoQueue], op |-> "none", name |-> "none"]

\* a product document: none, one whose stock is not a number, one with stock v
NoDocument == [kind |-> "absent", stock |-> 0]
InvalidDocument == [kind |-> "invalid", stock |-> 0]
Document(v) == [kind |-> "number", stock |-> v]

\* the catalogue is empty and no syncAllStock call is running; counter[p] is
\* the key product:stock:<p>
InitBulk ==
    [ledger |-> [p \in Products |-> NoDocument],
     counter |-> [p \in Products |-> <<>>],
     pc |-> "idle", products |-> <<>>, failed |-> {}, findFailed |-> FALSE]

Init ==
    /\ dbStock \in 0..MaxStock
    /\ productActive \in BOOLEAN
    /\ orders = <<>>
    /\ published = {}
    /\ stockKey \in {<<>>, <<dbStock>>}
    /\ locks = {}
    /\ \/ redisOpen = TRUE /\ connectionAttempts = 0
       \/ redisOpen = FALSE /\ connectionAttempts = 1
    /\ req = [r \in Reqs |-> IdleReq]
    /\ syncAll = "idle"
    /\ now \in {"before", "open", "ended"}
    /\ queue = <<>>
    /\ scheduled = 0
    /\ handler = [o \in OrderIds |-> "idle"]
    /\ deliveries = [o \in OrderIds |-> 0]
    /\ orderStatusSent = [o \in OrderIds |-> 0]
    /\ mockLocks = {}
    /\ mockExpired = {}
    /\ mockCall = [c \in Calls |-> IdleCall]
    /\ amqp = InitAmqp
    /\ wss = InitWss
    /\ bulk = InitBulk
    /\ mq = InitMq
    /\ mem = InitMem
    /\ rc = InitRc
    /\ cons = InitCons

Set(r, q) == req' = [req EXCEPT ![r] = q]

\* ---- POST /api/seckill ----------------------------------------------------
\* Requests are numbered in their order of arrival and buyers in the order of
\* their first request, so request r is sent by one of the buyers 1..r.
Buyers(r) == {u \in Users : u <= r}

Done(r) == req[r].pc = "done"

Start(r, u) ==
    /\ req[r].pc = "idle"
    /\ \A p \in Reqs : p < r => req[p].pc # "idle"
    /\ Set(r, [At(req[r], "findProduct", "-", "-") EXCEPT
                  !.user = u, !.after = {p \in Reqs : Done(p)}])
    /\ UNCHANGED <<restVars, ledgerVars, orders, published, stockKey, locks, redisConn, syncAll, mockVars, settleVars>>

FindProduct(r) ==
    /\ req[r].pc = "findProduct"
    /\ Set(r, IF productActive
              THEN At(req[r], "getStock1", "get", "-")
              ELSE Respond(req[r], "not_found"))
    /\ UNCHANGED <<restVars, ledgerVars, orders, published, stockKey, locks, redisConn, syncAll, mockVars, settleVars>>

GetStock(r) ==
    /\ req[r].sub = "get"
    /\ redisOpen
    /\ Set(r, IF stockKey = <<>>
              THEN At(req[r], req[r].pc, "syncA", "find")
              ELSE GetStockReturn(req[r], stockKey[1]))
    /\ UNCHANGED <<restVars, ledgerVars, orders, published, stockKey, locks, redisConn, syncAll, mockVars, settleVars>>

SyncStockFromDB(r) ==
    /\ req[r].syn = "find"
    /\ redisOpen
    /\ Set(r, [At(req[r], req[r].pc, req[r].sub, "set") EXCEPT !.productStock = dbStock])
    /\ UNCHANGED <<restVars, ledgerVars, orders, published, stockKey, locks, redisConn, syncAll, mockVars, settleVars>>

InitStock(r) ==
    /\ req[r].syn = "set"
    /\ redisOpen
    /\ stockKey' = <<req[r].productStock>>
    /\ Set(r, SyncReturn(req[r], req[r].productStock))
    /\ UNCHANGED <<restVars, ledgerVars, orders, published, locks, redisConn, syncAll, mockVars, settleVars>>

\* AcquireSeckillLock as it would be if SET were sent without NX
AcquireWithoutNX(r) ==
    /\ req[r].pc = "acquire"
    /\ redisOpen
    /\ locks' = locks \cup {req[r].user}
    /\ Set(r, [At(req[r], "decrement", "decr", "-") EXCEPT !.lockAcquired = TRUE])
    /\ UNCHANGED <<restVars, ledgerVars, orders, published, stockKey, redisConn, syncAll, mockVars, settleVars>>

AcquireSeckillLock(r) ==
    /\ req[r].pc = "acquire"
    /\ redisOpen
    /\ IF req[r].user \notin locks
       THEN /\ locks' = locks \cup {req[r].user}
            /\ Set(r, [At(req[r], "decrement", "decr", "-") EXCEPT !.lockAcquired = TRUE])
       ELSE /\ locks' = locks
            /\ Set(r, Respond(req[r], "already"))
    /\ UNCHANGED <<restVars, ledgerVars, orders, published, stockKey, redisConn, syncAll, mockVars, settleVars>>

DecrementStock(r) ==
    /\ req[r].pc = "decrement"
    /\ req[r].sub \in {"decr", "decr2"}
    /\ redisOpen
    /\ stockKey' = RedisDecr(stockKey)
    /\ LET q == [req[r] EXCEPT !.net = @ + 1]
       IN  Set(r, IF stockKey'[1] >= 0
                  THEN DecrementReturn([q EXCEPT !.ownStock = stockKey'[1]], TRUE)
                  ELSE At(q, "decrement", IF q.sub = "decr" THEN "incr" ELSE "incr2", "-"))
    /\ UNCHANGED <<restVars, ledgerVars, orders, published, locks, redisConn, syncAll, mockVars, settleVars>>

RevertDecrement(r) ==
    /\ req[r].pc = "decrement"
    /\ req[r].sub \in {"incr", "incr2"}
    /\ redisOpen
    /\ stockKey' = RedisIncr(stockKey)
    /\ LET q == [req[r] EXCEPT !.net = @ - 1]
       IN  Set(r, IF q.sub = "incr"
                  THEN At(q, "decrement", "syncD", "find")
                  ELSE DecrementReturn(q, FALSE))
    /\ UNCHANGED <<restVars, ledgerVars, orders, published, locks, redisConn, syncAll, mockVars, settleVars>>

\* ReleaseSeckillLock as it would be if DEL were sent for another key
ReleaseOtherKey(r) ==
    /\ req[r].pc \in {"release400", "catch"}
    /\ redisOpen
    /\ locks' = locks
    /\ Set(r, Respond([req[r] EXCEPT !.released = "yes"],
                      IF req[r].pc = "catch" THEN "error" ELSE "sold_out"))
    /\ UNCHANGED <<restVars, ledgerVars, orders, published, stockKey, redisConn, syncAll, mockVars, settleVars>>

ReleaseSeckillLock(r) ==
    /\ req[r].pc \in {"release400", "catch"}
    /\ redisOpen
    /\ locks' = locks \ {req[r].user}
    /\ Set(r, Respond([req[r] EXCEPT !.released = "yes"],
                      IF req[r].pc = "catch" THEN "error" ELSE "sold_out"))
    /\ UNCHANGED <<restVars, ledgerVars, orders, published, stockKey, redisConn, syncAll, mockVars, settleVars>>

\* InsertOrder as it would be if the order were created already confirmed
InsertOrderConfirmed(r) ==
    /\ req[r].pc = "insertOrder"
    /\ orders' = Append(orders, [userId |-> req[r].user, status |-> "confirmed", updatedAt |-> 0,
                                  quantity |-> req[r].quantity])
    /\ Set(r, [At(req[r], "publish", "-", "-") EXCEPT !.orderId = Len(orders) + 1])
    /\ UNCHANGED <<restVars, ledgerVars, published, stockKey, locks, redisConn, syncAll, mockVars, settleVars>>

\* InsertOrder as it would be if the handler also debited Product.stock
InsertOrderDebitsLedger(r) ==
    /\ req[r].pc = "insertOrder"
    /\ orders' = Append(orders, [userId |-> req[r].user, status |-> "pending", updatedAt |-> 0,
                                  quantity |-> req[r].quantity])
    /\ dbStock' = dbStock - 1
    /\ Set(r, [At(req[r], "publish", "-", "-") EXCEPT !.orderId = Len(orders) + 1])
    /\ UNCHANGED <<restVars, productActive, now, published, stockKey, locks, redisConn, syncAll, mockVars, settleVars>>

InsertOrder(r) ==
    /\ req[r].pc = "insertOrder"
    /\ orders' = Append(orders, [userId |-> req[r].user, status |-> "pending", updatedAt |-> 0,
                                  quantity |-> req[r].quantity])
    /\ Set(r, [At(req[r], "publish", "-", "-") EXCEPT !.orderId = Len(orders) + 1])
    /\ UNCHANGED <<restVars, ledgerVars, published, stockKey, locks, redisConn, syncAll, mockVars, settleVars>>

PublishOrderMessage(r) ==
    /\ req[r].pc = "publish"
    /\ published' = published \cup {req[r].orderId}
    /\ queue' = Append(queue, [orderId |-> req[r].orderId, retryCount |-> 0])
    /\ scheduled' = scheduled + 1
    /\ Set(r, At(req[r], "insertLog", "-", "-"))
    /\ UNCHANGED <<restVars, ledgerVars, orders, stockKey, locks, redisConn, syncAll, mockVars,
                   handler, deliveries, orderStatusSent>>

\* InsertLog as it would be if the success path released the reservation
InsertLogThenRelease(r) ==
    /\ req[r].pc = "insertLog"
    /\ locks' = locks \ {req[r].user}
    /\ Set(r, At(req[r], "getStock2", "get", "-"))
    /\ UNCHANGED <<restVars, ledgerVars, orders, published, stockKey, redisConn, syncAll, mockVars, settleVars>>

InsertLog(r) ==
    /\ req[r].pc = "insertLog"
    /\ Set(r, At(req[r], "getStock2", "get", "-"))
    /\ UNCHANGED <<restVars, ledgerVars, orders, published, stockKey, locks, redisConn, syncAll, mockVars, settleVars>>

\* ---- failures of the collaborators ----------------------------------------
\* a Redis command rejects
RedisCommandFails(r) ==
    /\ AtCommand(req[r])
    /\ Set(r, CommandThrow(req[r]))
    /\ UNCHANGED <<restVars, ledgerVars, orders, published, stockKey, locks, redisConn, syncAll, mockVars, settleVars>>

\* a MongoDB operation rejects
LedgerFails(r) ==
    /\ \/ req[r].pc \in {"findProduct", "insertOrder", "insertLog"}
       \/ req[r].syn = "find" /\ redisOpen
    /\ Set(r, IF req[r].syn = "find" THEN SyncReturn(req[r], 0) ELSE RouteCatch(req[r]))
    /\ UNCHANGED <<restVars, ledgerVars, orders, published, stockKey, locks, redisConn, syncAll, mockVars, settleVars>>

\* PublishFails as it would be if the handler swallowed the publisher's error
PublishFailsIgnored(r) ==
    /\ req[r].pc = "publish"
    /\ Set(r, At(req[r], "insertLog", "-", "-"))
    /\ UNCHANGED <<restVars, ledgerVars, orders, published, stockKey, locks, redisConn, syncAll, mockVars, settleVars>>

\* publishMessage throws
PublishFails(r) ==
    /\ req[r].pc = "publish"
    /\ Set(r, RouteCatch(req[r]))
    /\ UNCHANGED <<restVars, ledgerVars, orders, published, stockKey, locks, redisConn, syncAll, mockVars, settleVars>>

\* ---- ensureConnected with the client not open -----------------------------
\* initializeRedisClient connects: the request goes on
EnsureConnectedOk(r) ==
    /\ AtEntry(req[r])
    /\ ~redisOpen
    /\ ~AttemptInProgress
    /\ redisOpen' = TRUE
    /\ connectionAttempts' = 0
    /\ UNCHANGED <<restVars, ledgerVars, orders, published, stockKey, locks, req, syncAll, mockVars, settleVars>>

\* initializeRedisClient returns null or fails to connect: ensureConnected throws
EnsureConnectedThrows(r) ==
    /\ AtEntry(req[r])
    /\ ~redisOpen
    /\ connectionAttempts' =
          IF AttemptInProgress THEN connectionAttempts ELSE connectionAttempts + 1
    /\ Set(r, EntryThrow(req[r]))
    /\ UNCHANGED <<restVars, ledgerVars, orders, published, stockKey, locks, redisOpen, syncAll, mockVars, settleVars>>

\* ---- the environment ------------------------------------------------------
\* the stock key is evicted, or Redis restarts without it
EvictStock ==
    /\ stockKey # <<>>
    /\ stockKey' = <<>>
    /\ UNCHANGED <<restVars, ledgerVars, orders, published, locks, redisConn, req, syncAll, mockVars, settleVars>>

\* the TTL of a reservation runs out
ExpireLock(u) ==
    /\ u \in locks
    /\ locks' = locks \ {u}
    /\ UNCHANGED <<restVars, ledgerVars, orders, published, stockKey, redisConn, req, syncAll, mockVars, settleVars>>

\* the client's connection ends ('end' event)
RedisConnectionEnd ==
    /\ redisOpen
    /\ redisOpen' = FALSE
    /\ UNCHANGED <<restVars, ledgerVars, orders, published, stockKey, locks, connectionAttempts,
                   req, syncAll, mockVars, settleVars>>

\* ---- admin endpoints ------------------------------------------------------
\* POST /api/seckill/reset-lock sent by the authenticated user v with userId u
\* in the body (or with none, and then u = v)
ResetLock(v, u) ==
    /\ redisOpen
    /\ u \in locks
    /\ locks' = locks \ {u}
    /\ UNCHANGED <<restVars, ledgerVars, orders, published, stockKey, redisConn, req, syncAll, mockVars, settleVars>>

\* POST /api/seckill/sync-stock: syncAllStock reads the products ...
SyncAllStockFind ==
    /\ syncAll = "idle"
    /\ redisOpen
    /\ syncAll' = "set"
    /\ UNCHANGED <<restVars, ledgerVars, orders, published, stockKey, locks, redisConn, req, mockVars, settleVars>>

\* ... and initStock writes the product's stock (or fails, which is logged)
SyncAllStockSet ==
    /\ syncAll = "set"
    /\ \/ redisOpen /\ stockKey' = <<dbStock>>
       \/ stockKey' = stockKey
    /\ syncAll' = "idle"
    /\ UNCHANGED <<restVars, ledgerVars, orders, published, locks, redisConn, req, mockVars, settleVars>>

Purchase(r) ==
    \/ \E u \in Buyers(r) : Start(r, u)
    \/ FindProduct(r)
    \/ GetStock(r)
    \/ SyncStockFromDB(r)
    \/ InitStock(r)
    \/ AcquireSeckillLock(r)
    \/ DecrementStock(r)
    \/ RevertDecrement(r)
    \/ ReleaseSeckillLock(r)
    \/ InsertOrder(r)
    \/ PublishOrderMessage(r)
    \/ InsertLog(r)

Failure(r) ==
    \/ RedisCommandFails(r)
    \/ LedgerFails(r)
    \/ PublishFails(r)
    \/ EnsureConnectedOk(r)
    \/ EnsureConnectedThrows(r)

Environment ==
    \/ EvictStock
    \/ \E u \in Users : ExpireLock(u)
    \/ RedisConnectionEnd

Admin ==
    \/ \E v, u \in Users : ResetLock(v, u)
    \/ SyncAllStockFind
    \/ SyncAllStockSet

Next ==
    \/ \E r \in Reqs : Purchase(r)
    \/ \E r \in Reqs : Failure(r)
    \/ Environment
    \/ Admin

Spec == Init /\ [][Next]_vars

\* ---- the in-memory SeckillStockManager over MockRedis ----------------------
\* MockRedis.exists: a key whose expiry has passed is deleted and reported absent
MockRedisExists(u) == u \in mockLocks /\ u \notin mockExpired

\* acquireSeckillLock is called: redis.exists runs, the call awaits its result
MockAcquireExists(c, u) ==
    /\ mockCall[c].pc = "idle"
    /\ mockCall' = [mockCall EXCEPT ![c] =
                      [pc |-> "checked", user |-> u, exists |-> MockRedisExists(u),
                       result |-> FALSE]]
    /\ mockLocks' = IF u \in mockExpired THEN mockLocks \ {u} ELSE mockLocks
    /\ mockExpired' = mockExpired \ {u}
    /\ UNCHANGED <<restVars, mainVars>>

\* the call resumes: it returns false if the key existed, else redis.setex
\* stores the key with a fresh expiry and the call awaits it
MockAcquireSetex(c) ==
    /\ mockCall[c].pc = "checked"
    /\ IF mockCall[c].exists
       THEN /\ mockCall' = [mockCall EXCEPT ![c].pc = "done"]
            /\ UNCHANGED <<restVars, mockLocks, mockExpired>>
       ELSE /\ mockCall' = [mockCall EXCEPT ![c].pc = "set"]
            /\ mockLocks' = mockLocks \cup {mockCall[c].user}
            /\ mockExpired' = mockExpired \ {mockCall[c].user}
    /\ UNCHANGED <<restVars, mainVars>>

\* the call resumes after setex and returns true
MockAcquireReturn(c) ==
    /\ mockCall[c].pc = "set"
    /\ mockCall' = [mockCall EXCEPT ![c].pc = "done", ![c].result = TRUE]
    /\ UNCHANGED <<restVars, mockLocks, mockExpired, mainVars>>

\* the expiry time of a stored key passes
MockTtlPasses(u) ==
    /\ u \in mockLocks \ mockExpired
    /\ mockExpired' = mockExpired \cup {u}
    /\ UNCHANGED <<restVars, mockLocks, mockCall, mainVars>>

InitMock ==
    /\ Init
    /\ dbStock = 0
    /\ productActive
    /\ stockKey = <<>>
    /\ redisOpen

NextMock ==
    \/ \E c \in Calls, u \in Users : MockAcquireExists(c, u)
    \/ \E c \in Calls : MockAcquireSetex(c)
    \/ \E c \in Calls : MockAcquireReturn(c)
    \/ \E u \in Users : MockTtlPasses(u)

SpecMock == InitMock /\ [][NextMock]_vars

\* ---- the purchase path without failures -----------------------------------
\* Redis connected and the counter initialised at startup; no Redis, MongoDB
\* or broker failure, no eviction, no TTL expiry, no admin request.
\* ---- requests for more than one unit --------------------------------------
\* zValidator accepts a body whose quantity is q (seckillSchema: an integer
\* from 1 to 10); the requests of the other specifications ask for 1
ValidateQuantity(r, q) ==
    /\ req[r].pc = "idle"
    /\ req[r].quantity = 1
    /\ \A t \in Reqs : t < r => req[t].pc # "idle"
    /\ Set(r, [req[r] EXCEPT !.quantity = q])
    /\ UNCHANGED <<restVars, ledgerVars, orders, published, stockKey, locks, redisConn, syncAll, mockVars, settleVars>>

InitNominal ==
    /\ Init
    /\ redisOpen
    /\ stockKey = <<dbStock>>

NextNominal == \E r \in Reqs : Purchase(r)

SpecNominal == InitNominal /\ [][NextNominal]_vars

NextQuantity ==
    \/ \E r \in Reqs, q \in 2..MaxQuantity : ValidateQuantity(r, q)
    \/ \E r \in Reqs : Purchase(r)

SpecQuantity == InitNominal /\ [][NextQuantity]_vars

\* ---- settlement: the order-processing queue and its consumer ---------------
\* The handler of a delivered message waits on its timer and on updateOne
\* ("update"), then pushes the status to the buyer ("notify").
Message(o) == [orderId |-> o, retryCount |-> 0]

\* updateOne({_id: orderId}, {$set: {status: 'confirmed', updatedAt: new Date()}})
\* applied to the collection; updatedAt counts the writes of the field
UpdateOne(o) ==
    IF o \in DOMAIN orders
    THEN [orders EXCEPT ![o].status = "confirmed", ![o].updatedAt = @ + 1]
    ELSE orders

\* MockRabbitMQ.processMessage, run by setImmediate: the head of the queue is
\* shifted and handed to the registered consumer
ProcessMessage ==
    /\ scheduled > 0
    /\ scheduled' = scheduled - 1
    /\ IF queue = <<>>
       THEN UNCHANGED <<restVars, queue, handler, deliveries>>
       ELSE /\ queue' = Tail(queue)
            /\ handler' = [handler EXCEPT ![Head(queue).orderId] = "update"]
            /\ deliveries' = [deliveries EXCEPT ![Head(queue).orderId] = @ + 1]
    /\ UNCHANGED <<restVars, ledgerVars, orders, published, stockKey, locks, redisConn, req, syncAll,
                   orderStatusSent, mockVars>>

\* the handler's updateOne resolves: the order is confirmed
ConfirmOrder(o) ==
    /\ handler[o] = "update"
    /\ orders' = UpdateOne(o)
    /\ handler' = [handler EXCEPT ![o] = "notify"]
    /\ UNCHANGED <<restVars, ledgerVars, published, stockKey, locks, redisConn, req, syncAll,
                   queue, scheduled, deliveries, orderStatusSent, mockVars>>

\* the handler's updateOne rejects (with the write applied or not): the
\* handler of index.ts catches the error, logs it and returns; processMessage
\* takes the message as processed
ConfirmOrderFails(o) ==
    /\ handler[o] = "update"
    /\ \/ orders' = orders
       \/ orders' = UpdateOne(o)
    /\ handler' = [handler EXCEPT ![o] = "idle"]
    /\ UNCHANGED <<restVars, ledgerVars, published, stockKey, locks, redisConn, req, syncAll,
                   queue, scheduled, deliveries, orderStatusSent, mockVars>>

\* WebSocketService.sendOrderStatus(userId, orderId, 'confirmed'), after which
\* the handler returns
SendOrderStatus(o) ==
    /\ handler[o] = "notify"
    /\ orderStatusSent' = [orderStatusSent EXCEPT ![o] = @ + 1]
    /\ handler' = [handler EXCEPT ![o] = "idle"]
    /\ UNCHANGED <<restVars, ledgerVars, orders, published, stockKey, locks, redisConn, req, syncAll,
                   queue, scheduled, deliveries, mockVars>>

NextSettle ==
    \/ \E r \in Reqs : Purchase(r)
    \/ ProcessMessage
    \/ \E o \in OrderIds : ConfirmOrder(o)
    \/ \E o \in OrderIds : ConfirmOrderFails(o)
    \/ \E o \in OrderIds : SendOrderStatus(o)

\* the purchase path without failures, MockRabbitMQ and the consumer of
\* index.ts
SpecSettle == InitNominal /\ [][NextSettle]_vars

\* the same with publishMessage allowed to throw; every step of the route,
\* of MockRabbitMQ and of the consumer is taken when it stays possible
NextSettleFaulty ==
    \/ NextSettle
    \/ \E r \in Reqs : PublishFails(r)

SpecSettleFair == InitNominal /\ [][NextSettleFaulty]_vars /\ WF_vars(NextSettle)

\* ---- the consumer registered with RabbitMQService ------------------------
\* The broker hands a ready message to the callback of channel.consume (manual
\* acknowledgement); the model stops delivering a message after MaxDeliveries
\* deliveries.
AmqpDeliver ==
    /\ queue # <<>>
    /\ deliveries[Head(queue).orderId] < MaxDeliveries
    /\ queue' = Tail(queue)
    /\ handler' = [handler EXCEPT ![Head(queue).orderId] = "update"]
    /\ deliveries' = [deliveries EXCEPT ![Head(queue).orderId] = @ + 1]
    /\ UNCHANGED <<restVars, ledgerVars, orders, published, stockKey, locks, redisConn, req, syncAll,
                   scheduled, orderStatusSent, mockVars>>

\* sendOrderStatus, then rabbitMQService.ackMessage(msg): the broker forgets
\* the message
AmqpSendOrderStatusAck(o) ==
    /\ handler[o] = "notify"
    /\ orderStatusSent' = [orderStatusSent EXCEPT ![o] = @ + 1]
    /\ handler' = [handler EXCEPT ![o] = "idle"]
    /\ UNCHANGED <<restVars, ledgerVars, orders, published, stockKey, locks, redisConn, req, syncAll,
                   queue, scheduled, deliveries, mockVars>>

\* updateOne rejects (with the write applied or not): the handler's catch
\* calls nackMessage(msg, false, true) and the broker requeues the message
AmqpNackRequeue(o) ==
    /\ handler[o] = "update"
    /\ \/ orders' = orders
       \/ orders' = UpdateOne(o)
    /\ queue' = Append(queue, Message(o))
    /\ handler' = [handler EXCEPT ![o] = "idle"]
    /\ UNCHANGED <<restVars, ledgerVars, published, stockKey, locks, redisConn, req, syncAll,
                   scheduled, deliveries, orderStatusSent, mockVars>>

NextAmqp ==
    \/ \E r \in Reqs : Purchase(r)
    \/ AmqpDeliver
    \/ \E o \in OrderIds : ConfirmOrder(o)
    \/ \E o \in OrderIds : AmqpSendOrderStatusAck(o)
    \/ \E o \in OrderIds : AmqpNackRequeue(o)

SpecAmqp == InitNominal /\ [][NextAmqp]_vars

\* ---- purchases, settlement and the admin endpoints together ---------------
NextOrders ==
    \/ NextSettle
    \/ Admin

SpecOrders == InitNominal /\ [][NextOrders]_vars

\* ---- RabbitMQService: connect, reconnect and publish ----------------------
IsConnected(a) == a.connection /\ a.channel

\* the tail of handleReconnect: one more attempt is scheduled with
\* setTimeout, or the service gives up
ScheduleReconnect(a) ==
    IF a.reconnectAttempts < maxReconnectAttempts
    THEN [a EXCEPT !.reconnectAttempts = @ + 1, !.timers = @ + 1,
                   !.sinceDown = IF a.up THEN @ ELSE @ + 1,
                   !.burst = @ + 1]
    ELSE a

\* handleReconnect up to its first await
HandleReconnect(a) ==
    IF a.isConnecting THEN a
    ELSE IF a.channel THEN [a EXCEPT !.closeChan = @ + 1]
    ELSE IF a.connection THEN [a EXCEPT !.closeConn = @ + 1]
    ELSE ScheduleReconnect(a)

\* connect() up to its first await: it returns at once when the service is
\* connected or connecting
ConnectCall(a) ==
    IF IsConnected(a) \/ a.isConnecting
    THEN a
    ELSE [a EXCEPT !.isConnecting = TRUE, !.connect = "connecting", !.burst = 0]

\* channel.sendToQueue: true, or false when the write buffer is full; on a
\* channel whose broker is gone it throws, or still buffers the message
\* while the loss has not been noticed
SendToQueue(a) == IF a.up THEN {"true", "false"} ELSE {"threw", "true"}

\* AfterEnsureConnected as it would be without the test of this.channel
AfterEnsureConnectedUnchecked(a) == {"true"}

\* publishMessage after ensureConnected returned: what the call reports
AfterEnsureConnected(a) == IF a.channel THEN SendToQueue(a) ELSE {"false"}

\* at most MaxPending handleReconnect calls wait in channel.close() and in
\* connection.close() at a time
PendingBounded(a) == a.closeChan <= MaxPending /\ a.closeConn <= MaxPending

\* the broker becomes unreachable, for good; a live connection emits 'error'
\* and 'close', or 'close' alone
BrokerDown ==
    /\ amqp.up
    /\ \E n \in {1, 2} :
          amqp' = [amqp EXCEPT !.up = FALSE, !.events = IF amqp.connection THEN n ELSE 0]
    /\ UNCHANGED <<mainVars, mockVars, wss, bulk, mq, mem, rc, cons>>

\* the 'error' or the 'close' handler of the connection runs
ConnectionEvent ==
    /\ amqp.events > 0
    /\ amqp' = HandleReconnect([amqp EXCEPT !.events = @ - 1])
    /\ PendingBounded(amqp')
    /\ UNCHANGED <<mainVars, mockVars, wss, bulk, mq, mem, rc, cons>>

\* a handleReconnect call resumes after channel.close()
AfterChannelClose ==
    /\ amqp.closeChan > 0
    /\ LET a == [amqp EXCEPT !.closeChan = @ - 1, !.channel = FALSE]
       IN  amqp' = IF a.connection THEN [a EXCEPT !.closeConn = @ + 1]
                   ELSE ScheduleReconnect(a)
    /\ PendingBounded(amqp')
    /\ UNCHANGED <<mainVars, mockVars, wss, bulk, mq, mem, rc, cons>>

\* a handleReconnect call resumes after connection.close()
AfterConnectionClose ==
    /\ amqp.closeConn > 0
    /\ amqp' = ScheduleReconnect([amqp EXCEPT !.closeConn = @ - 1, !.connection = FALSE])
    /\ UNCHANGED <<mainVars, mockVars, wss, bulk, mq, mem, rc, cons>>

\* a reconnect timer fires and calls connect(). Timers have one delay and
\* fire in the order they were set: the timers pending when a timer starts a
\* connection attempt (early) fire less than reconnectDelay after it, and
\* unspaced records that such a timer started an attempt of its own.
ReconnectTimerFires ==
    /\ amqp.timers > 0
    /\ LET a == [amqp EXCEPT !.timers = @ - 1]
           starts == ~(IsConnected(a) \/ a.isConnecting)
       IN  amqp' = IF starts
                   THEN [ConnectCall(a) EXCEPT !.early = a.timers,
                                               !.unspaced = @ \/ amqp.early > 0]
                   ELSE [ConnectCall(a) EXCEPT !.early = IF @ > 0 THEN @ - 1 ELSE 0]
    /\ UNCHANGED <<mainVars, mockVars, wss, bulk, mq, mem, rc, cons>>

\* amqplib's connect resolves: the connection is stored, createChannel is awaited
AmqplibConnectResolves ==
    /\ amqp.connect = "connecting"
    /\ amqp.up
    /\ amqp' = [amqp EXCEPT !.connection = TRUE, !.connect = "channel"]
    /\ UNCHANGED <<mainVars, mockVars, wss, bulk, mq, mem, rc, cons>>

\* createChannel resolves: connect() succeeds, and a publishMessage call that
\* awaited it goes on
CreateChannelResolves ==
    /\ amqp.connect = "channel"
    /\ amqp.up
    /\ LET a == [amqp EXCEPT !.channel = TRUE, !.reconnectAttempts = 0,
                            !.isConnecting = FALSE, !.connect = "idle"]
       IN  IF amqp.pub.pc = "await"
           THEN \E res \in AfterEnsureConnected(a) :
                    amqp' = [a EXCEPT !.pub.pc = "done", !.pub.result = res]
           ELSE amqp' = a
    /\ UNCHANGED <<mainVars, mockVars, wss, bulk, mq, mem, rc, cons>>

\* amqplib's connect or createChannel rejects: the catch block of connect()
\* calls handleReconnect and rethrows to the caller
ConnectFails ==
    /\ amqp.connect \in {"connecting", "channel"}
    /\ ~amqp.up
    /\ LET a == HandleReconnect([amqp EXCEPT !.isConnecting = FALSE, !.connect = "idle"])
       IN  amqp' = IF amqp.pub.pc = "await"
                   THEN [a EXCEPT !.pub.pc = "done", !.pub.result = "threw"]
                   ELSE a
    /\ PendingBounded(amqp')
    /\ UNCHANGED <<mainVars, mockVars, wss, bulk, mq, mem, rc, cons>>

\* publishMessage is called: ensureConnected, then the test of this.channel
PublishMessage ==
    /\ amqp.pub.pc = "idle"
    /\ LET ex == ~amqp.up /\ amqp.reconnectAttempts = maxReconnectAttempts
           a == [amqp EXCEPT !.pub.exhausted = ex]
       IN  IF IsConnected(a) \/ a.isConnecting
           THEN \E res \in AfterEnsureConnected(a) :
                    amqp' = [a EXCEPT !.pub.pc = "done", !.pub.result = res]
           ELSE amqp' = [ConnectCall(a) EXCEPT !.pub.pc = "await"]
    /\ UNCHANGED <<mainVars, mockVars, wss, bulk, mq, mem, rc, cons>>

\* the caller has taken the result
PublishReturns ==
    /\ amqp.pub.pc = "done"
    /\ amqp' = [amqp EXCEPT !.pub = IdlePublish]
    /\ UNCHANGED <<mainVars, mockVars, wss, bulk, mq, mem, rc, cons>>

NextBroker ==
    \/ BrokerDown
    \/ ConnectionEvent
    \/ AfterChannelClose
    \/ AfterConnectionClose
    \/ ReconnectTimerFires
    \/ AmqplibConnectResolves
    \/ CreateChannelResolves
    \/ ConnectFails
    \/ PublishMessage
    \/ PublishReturns

SpecBroker == InitMock /\ [][NextBroker]_vars

\* ---- WebSocketServiceClass: the connections map and the push operations ---
\* sent[s] counts the messages sendToUser and broadcast wrote to socket s.
\* sendToUser as it would be without the test of readyState
SendToUserAnyState(w, u) ==
    LET s == w.connections[u]
    IN  IF s # 0 THEN [w EXCEPT !.sent[s] = @ + 1] ELSE w

SendToUser(w, u) ==
    LET s == w.connections[u]
    IN  IF s # 0 /\ w.sock[s].readyState = "OPEN"
        THEN [w EXCEPT !.sent[s] = @ + 1]
        ELSE w

Broadcast(w) ==
    [w EXCEPT !.sent =
        [s \in Sockets |->
            IF (\E u \in Users : w.connections[u] = s) /\ w.sock[s].readyState = "OPEN"
            THEN w.sent[s] + 1
            ELSE w.sent[s]]]

\* the upgrade callback for a client that names user u: the socket is OPEN
\* and replaces whatever the map held for u. Sockets are numbered in the
\* order of their upgrades.
HandleUpgrade(s, u) ==
    /\ wss.sock[s].readyState = "NEW"
    /\ \A t \in Sockets : t < s => wss.sock[t].readyState # "NEW"
    /\ wss' = [wss EXCEPT !.sock[s] = [readyState |-> "OPEN", owner |-> u],
                          !.connections[u] = s,
                          !.op = NoPush]
    /\ UNCHANGED <<mainVars, mockVars, amqp, bulk, mq, mem, rc, cons>>

\* the closing handshake starts or the peer is lost: readyState leaves OPEN
\* before the 'close' event is emitted
SocketClosing(s) ==
    /\ wss.sock[s].readyState = "OPEN"
    /\ wss' = [wss EXCEPT !.sock[s].readyState = "CLOSING", !.op = NoPush]
    /\ UNCHANGED <<mainVars, mockVars, amqp, bulk, mq, mem, rc, cons>>

\* the 'close' handler: connections.delete(userId)
SocketCloseEvent(s) ==
    /\ wss.sock[s].readyState = "CLOSING"
    /\ wss' = [wss EXCEPT !.sock[s].readyState = "CLOSED",
                          !.connections[wss.sock[s].owner] = 0,
                          !.op = NoPush]
    /\ UNCHANGED <<mainVars, mockVars, amqp, bulk, mq, mem, rc, cons>>

\* the 'error' handler: connections.delete(userId); the socket is closing
SocketErrorEvent(s) ==
    /\ wss.sock[s].readyState = "OPEN"
    /\ wss' = [wss EXCEPT !.sock[s].readyState = "CLOSING",
                          !.connections[wss.sock[s].owner] = 0,
                          !.op = NoPush]
    /\ UNCHANGED <<mainVars, mockVars, amqp, bulk, mq, mem, rc, cons>>

\* sendOrderStatus calls sendToUser(u, message)
SendToUserCall(u) ==
    /\ \A s \in Sockets : wss.sent[s] < MaxSent
    /\ wss' = [SendToUser(wss, u) EXCEPT !.op = [kind |-> "sendToUser", user |-> u]]
    /\ UNCHANGED <<mainVars, mockVars, amqp, bulk, mq, mem, rc, cons>>

\* sendStockUpdate and sendSeckillStatus call broadcast(message)
BroadcastCall ==
    /\ \A s \in Sockets : wss.sent[s] < MaxSent
    /\ wss' = [Broadcast(wss) EXCEPT !.op = [kind |-> "broadcast", user |-> 0]]
    /\ UNCHANGED <<mainVars, mockVars, amqp, bulk, mq, mem, rc, cons>>

NextPush ==
    \/ \E s \in Sockets, u \in Users : HandleUpgrade(s, u)
    \/ \E s \in Sockets : SocketClosing(s)
    \/ \E s \in Sockets : SocketCloseEvent(s)
    \/ \E s \in Sockets : SocketErrorEvent(s)
    \/ \E u \in Users : SendToUserCall(u)
    \/ BroadcastCall

SpecPush == InitMock /\ [][NextPush]_vars

\* ---- syncAllStock over a catalogue of several products --------------------
\* the documents find() returns, in _id order
RECURSIVE Found(_, _)
Found(ledger, p) ==
    IF p > NumProducts THEN <<>>
    ELSE IF ledger[p] = NoDocument THEN Found(ledger, p + 1)
    ELSE <<p>> \o Found(ledger, p + 1)

\* typeof product.stock === 'number'
IsNumber(d) == d.kind = "number"

\* a product document is created while no sync runs
InsertProduct(p, v) ==
    /\ bulk.pc = "idle"
    /\ bulk.ledger[p] = NoDocument
    /\ bulk' = [bulk EXCEPT !.ledger[p] = v]
    /\ UNCHANGED <<mainVars, mockVars, amqp, wss, mq, mem, rc, cons>>

\* between two syncs a purchase decrements the counter of product p
CounterDrifts(p) ==
    /\ bulk.pc = "idle"
    /\ bulk.counter[p] # <<>>
    /\ bulk.counter[p][1] >= 0
    /\ bulk' = [bulk EXCEPT !.counter[p] = <<@[1] - 1>>]
    /\ UNCHANGED <<mainVars, mockVars, amqp, wss, mq, mem, rc, cons>>

\* syncAllStock is called: ensureConnected returns, or throws to the caller
BulkEnsureConnected ==
    /\ bulk.pc = "idle"
    /\ \E ok \in BOOLEAN :
          bulk' = [bulk EXCEPT !.pc = IF ok THEN "find" ELSE "threw",
                               !.failed = {}, !.findFailed = FALSE, !.products = <<>>]
    /\ UNCHANGED <<mainVars, mockVars, amqp, wss, mq, mem, rc, cons>>

\* connectToDatabase and find().toArray() succeed
BulkFind ==
    /\ bulk.pc = "find"
    /\ LET found == Found(bulk.ledger, 1)
       IN  bulk' = [bulk EXCEPT !.products = found,
                                !.pc = IF found = <<>> THEN "returned" ELSE "loop"]
    /\ UNCHANGED <<mainVars, mockVars, amqp, wss, mq, mem, rc, cons>>

\* connectToDatabase or find() throws: the outer catch logs and the call
\* returns normally
BulkFindFails ==
    /\ bulk.pc = "find"
    /\ bulk' = [bulk EXCEPT !.pc = "returned", !.findFailed = TRUE]
    /\ UNCHANGED <<mainVars, mockVars, amqp, wss, mq, mem, rc, cons>>

\* the loop is done with its first product
BulkAdvance(b) ==
    [b EXCEPT !.products = Tail(@),
              !.pc = IF Len(b.products) = 1 THEN "returned" ELSE "loop"]

\* one turn of the loop for a product with a numeric stock: initStock sets
\* the counter, or throws (ensureConnected or SET) and the loop goes on
BulkInitStock(ok) ==
    /\ bulk.pc = "loop"
    /\ IsNumber(bulk.ledger[Head(bulk.products)])
    /\ LET p == Head(bulk.products)
       IN  bulk' = IF ok
                   THEN BulkAdvance([bulk EXCEPT !.counter[p] = <<bulk.ledger[p].stock>>])
                   ELSE BulkAdvance([bulk EXCEPT !.failed = @ \cup {p}])
    /\ UNCHANGED <<mainVars, mockVars, amqp, wss, mq, mem, rc, cons>>

\* one turn of the loop for a document without a numeric stock
BulkSkip ==
    /\ bulk.pc = "loop"
    /\ ~IsNumber(bulk.ledger[Head(bulk.products)])
    /\ bulk' = BulkAdvance(bulk)
    /\ UNCHANGED <<mainVars, mockVars, amqp, wss, mq, mem, rc, cons>>

\* the route has answered
BulkDone ==
    /\ bulk.pc \in {"returned", "threw"}
    /\ bulk' = [bulk EXCEPT !.pc = "idle"]
    /\ UNCHANGED <<mainVars, mockVars, amqp, wss, mq, mem, rc, cons>>

NextBulk ==
    \/ \E p \in Products, d \in {Document(v) : v \in 0..MaxStock} \cup {InvalidDocument} :
          InsertProduct(p, d)
    \/ \E p \in Products : CounterDrifts(p)
    \/ BulkEnsureConnected
    \/ BulkFind
    \/ BulkFindFails
    \/ \E ok \in BOOLEAN : BulkInitStock(ok)
    \/ BulkSkip
    \/ BulkDone

SpecBulk == InitMock /\ [][NextBulk]_vars

\* ---- MockRabbitMQ: the queues and consumers maps --------------------------
\* A message is written by its retryCount; messages, consumers and the
\* processMessage calls that setImmediate holds (scheduled) or that wait for
\* their consumers (inflight) are kept per queue name.
\* createQueue as it would be if it set both entries whatever the maps hold
CreateQueueResets(m, n) == [m EXCEPT !.q[n] = EmptyQueue]

CreateQueue(m, n) ==
    IF ~m.q[n].exists THEN [m EXCEPT !.q[n] = EmptyQueue] ELSE m

\* initializeQueues and any later caller: createQueue(n)
MqCreateQueue(n) ==
    /\ mq' = [CreateQueue(mq, n) EXCEPT !.op = "createQueue", !.name = n]
    /\ UNCHANGED <<mainVars, mockVars, amqp, wss, bulk, mem, rc, cons>>

\* publishMessage(n, message) on an existing queue: push and setImmediate
MqPublishMessage(n) ==
    /\ mq.q[n].exists
    /\ Len(mq.q[n].messages) + Len(mq.q[n].inflight) < MaxQueued
    /\ mq.q[n].scheduled < MaxQueued
    /\ mq' = [mq EXCEPT !.q[n].messages = Append(@, 0), !.q[n].scheduled = @ + 1,
                        !.op = "publishMessage", !.name = n]
    /\ UNCHANGED <<mainVars, mockVars, amqp, wss, bulk, mem, rc, cons>>

\* publishMessage or consume on a name the maps do not hold throws
MqUnknownQueue(n) ==
    /\ ~mq.q[n].exists
    /\ mq' = [mq EXCEPT !.op = "threw", !.name = n]
    /\ UNCHANGED <<mainVars, mockVars, amqp, wss, bulk, mem, rc, cons>>

\* consume(n, handler) on an existing queue
MqConsume(n) ==
    /\ mq.q[n].exists
    /\ mq.q[n].consumers < MaxConsumers
    /\ mq' = [mq EXCEPT !.q[n].consumers = @ + 1, !.op = "consume", !.name = n]
    /\ UNCHANGED <<mainVars, mockVars, amqp, wss, bulk, mem, rc, cons>>

\* a scheduled processMessage(n) runs: it returns at once, or shifts the head
\* and awaits the consumers
MqProcessMessage(n) ==
    /\ mq.q[n].scheduled > 0
    /\ LET c == mq.q[n]
           idle == ~c.exists \/ c.messages = <<>> \/ c.consumers = 0
       IN  mq' = IF idle
                 THEN [mq EXCEPT !.q[n].scheduled = @ - 1,
                                 !.op = "processMessage", !.name = n]
                 ELSE [mq EXCEPT !.q[n].scheduled = @ - 1,
                                 !.q[n].messages = Tail(@),
                                 !.q[n].inflight = Append(@, Head(c.messages)),
                                 !.op = "processMessage", !.name = n]
    /\ UNCHANGED <<mainVars, mockVars, amqp, wss, bulk, mem, rc, cons>>

\* the consumers of an awaited message resolve
MqHandlersResolve(n) ==
    /\ mq.q[n].inflight # <<>>
    /\ mq' = [mq EXCEPT !.q[n].inflight = Tail(@), !.op = "processMessage", !.name = n]
    /\ UNCHANGED <<mainVars, mockVars, amqp, wss, bulk, mem, rc, cons>>

\* a consumer of an awaited message rejects: the message is pushed back with
\* retryCount + 1, or discarded at MAX_RETRY
MqHandlersReject(n) ==
    /\ mq.q[n].inflight # <<>>
    /\ LET retryCount == Head(mq.q[n].inflight) + 1
       IN  mq' = [mq EXCEPT !.q[n].inflight = Tail(@),
                           !.q[n].messages = IF retryCount < MAX_RETRY
                                             THEN Append(@, retryCount) ELSE @,
                           !.op = "processMessage", !.name = n]
    /\ UNCHANGED <<mainVars, mockVars, amqp, wss, bulk, mem, rc, cons>>

NextMq ==
    \/ \E n \in QueueNames : MqCreateQueue(n)
    \/ \E n \in QueueNames : MqPublishMessage(n)
    \/ \E n \in QueueNames : MqUnknownQueue(n)
    \/ \E n \in QueueNames : MqConsume(n)
    \/ \E n \in QueueNames : MqProcessMessage(n)
    \/ \E n \in QueueNames : MqHandlersResolve(n)
    \/ \E n \in QueueNames : MqHandlersReject(n)

SpecMq == InitMock /\ [][NextMq]_vars

\* ---- the in-memory stock manager (MockRedis) -------------------------------
\* MockRedis.decr: the stored value less one, never below 0
MockRedisDecr(data) ==
    LET current == IF data = <<>> THEN 0 ELSE data[1]
    IN  IF current - 1 > 0 THEN current - 1 ELSE 0

\* initStock(productId, product.stock) at startup, before any purchase
MemInitStock ==
    /\ mem.data = <<>>
    /\ \A c \in Calls : mem.call[c].pc = "idle"
    /\ mem' = [mem EXCEPT !.data = <<dbStock>>]
    /\ UNCHANGED <<mainVars, mockVars, amqp, wss, bulk, mq, rc, cons>>

\* decrementStock is called and redis.get resolves: a missing key sends the
\* call to syncStockFromDB, a value that is not positive ends it with false
MemDecrementGet(c) ==
    /\ mem.call[c].pc = "idle"
    /\ \A d \in Calls : d < c => mem.call[d].pc # "idle"
    /\ mem' = IF mem.data = <<>>
              THEN [mem EXCEPT !.call[c].pc = "find"]
              ELSE IF mem.data[1] <= 0
              THEN [mem EXCEPT !.call[c].pc = "done", !.call[c].currentStock = mem.data]
              ELSE [mem EXCEPT !.call[c].pc = "decr", !.call[c].currentStock = mem.data]
    /\ UNCHANGED <<mainVars, mockVars, amqp, wss, bulk, mq, rc, cons>>

\* syncStockFromDB: findOne resolves with the product
MemSyncFind(c) ==
    /\ mem.call[c].pc = "find"
    /\ mem' = [mem EXCEPT !.call[c].pc = "set", !.call[c].currentStock = <<dbStock>>]
    /\ UNCHANGED <<mainVars, mockVars, amqp, wss, bulk, mq, rc, cons>>

\* syncStockFromDB: initStock sets the key; back in decrementStock a stock
\* that is not positive ends the call with false
MemSyncSet(c) ==
    /\ mem.call[c].pc = "set"
    /\ mem' = [mem EXCEPT !.data = mem.call[c].currentStock,
                          !.call[c].pc = IF mem.call[c].currentStock[1] <= 0
                                         THEN "done" ELSE "decr"]
    /\ UNCHANGED <<mainVars, mockVars, amqp, wss, bulk, mq, rc, cons>>

\* redis.decr resolves and the call returns newStock >= 0
MemDecr(c) ==
    /\ mem.call[c].pc = "decr"
    /\ mem' = [mem EXCEPT !.data = <<MockRedisDecr(mem.data)>>,
                          !.call[c].pc = "done",
                          !.call[c].before = mem.data,
                          !.call[c].result = MockRedisDecr(mem.data) >= 0]
    /\ UNCHANGED <<mainVars, mockVars, amqp, wss, bulk, mq, rc, cons>>

InitMemory ==
    /\ Init
    /\ productActive
    /\ redisOpen
    /\ stockKey = <<>>
    /\ now = "open"

\* the in-memory manager serves decrementStock and acquireSeckillLock calls
NextMem ==
    \/ MemInitStock
    \/ \E c \in Calls : MemDecrementGet(c)
    \/ \E c \in Calls : MemSyncFind(c)
    \/ \E c \in Calls : MemSyncSet(c)
    \/ \E c \in Calls : MemDecr(c)
    \/ NextMock

SpecMem == InitMemory /\ [][NextMem]_vars

\* ---- initializeRedisClient and ensureConnected -----------------------------
\* initializeRedisClient up to its await: it returns at once when the client
\* is open or when connectionAttempts is in 1..MAX_CONNECTION_ATTEMPTS - 1,
\* else it counts an attempt and calls client.connect()
InitializeRedisClient(a) ==
    IF a.open THEN a
    ELSE IF a.attempts > 0 /\ a.attempts < MAX_CONNECTION_ATTEMPTS THEN a
    ELSE [a EXCEPT !.attempts = @ + 1, !.connecting = TRUE]

\* the module is loaded: redisConnectionPromise = initializeRedisClient()
ModuleLoad ==
    /\ ~rc.loaded
    /\ rc' = InitializeRedisClient([rc EXCEPT !.loaded = TRUE])
    /\ UNCHANGED <<mainVars, mockVars, amqp, wss, bulk, mq, mem, cons>>

\* client.connect() resolves: 'ready' resets connectionAttempts, redis is set
ClientConnectResolves ==
    /\ rc.connecting
    /\ rc.reachable
    /\ rc' = [rc EXCEPT !.connecting = FALSE, !.open = TRUE, !.attempts = 0]
    /\ UNCHANGED <<mainVars, mockVars, amqp, wss, bulk, mq, mem, cons>>

\* client.connect() rejects: a retry is scheduled while attempts are left
ClientConnectRejects ==
    /\ rc.connecting
    /\ ~rc.reachable
    /\ rc' = [rc EXCEPT !.connecting = FALSE, !.failed = TRUE,
                        !.timers = IF rc.attempts < MAX_CONNECTION_ATTEMPTS
                                   THEN @ + 1 ELSE @]
    /\ UNCHANGED <<mainVars, mockVars, amqp, wss, bulk, mq, mem, cons>>

\* a retry timer fires: setTimeout(initializeRedisClient, RETRY_DELAY_MS)
RetryTimerFires ==
    /\ rc.timers > 0
    /\ LET a == InitializeRedisClient([rc EXCEPT !.timers = @ - 1])
       IN  rc' = [a EXCEPT !.skipped = @ \/ (~a.connecting /\ ~a.open)]
    /\ UNCHANGED <<mainVars, mockVars, amqp, wss, bulk, mq, mem, cons>>

\* ensureConnected is called: with the client open it returns, else it
\* awaits initializeRedisClient and then the 100 ms timer
EnsureConnectedCall(c) ==
    /\ rc.loaded
    /\ rc.ensure[c] = "idle"
    /\ rc' = IF rc.open
             THEN [rc EXCEPT !.ensure[c] = "ok"]
             ELSE [InitializeRedisClient(rc) EXCEPT !.ensure[c] = "await"]
    /\ UNCHANGED <<mainVars, mockVars, amqp, wss, bulk, mq, mem, cons>>

\* the awaited call and the 100 ms timer are over: the second test of isOpen
EnsureConnectedCheck(c) ==
    /\ rc.ensure[c] = "await"
    /\ ~rc.connecting
    /\ rc' = [rc EXCEPT !.ensure[c] = IF rc.open THEN "ok" ELSE "threw"]
    /\ UNCHANGED <<mainVars, mockVars, amqp, wss, bulk, mq, mem, cons>>

\* the caller has taken the outcome
EnsureConnectedReturns(c) ==
    /\ rc.ensure[c] \in {"ok", "threw"}
    /\ rc' = [rc EXCEPT !.ensure[c] = "idle"]
    /\ UNCHANGED <<mainVars, mockVars, amqp, wss, bulk, mq, mem, cons>>

\* the server is down for a while, once
RedisOutage ==
    /\ rc.reachable
    /\ ~rc.recovered
    /\ rc' = [rc EXCEPT !.reachable = FALSE, !.open = FALSE]
    /\ UNCHANGED <<mainVars, mockVars, amqp, wss, bulk, mq, mem, cons>>

\* the server is reachable again, for good
RedisRecovers ==
    /\ ~rc.reachable
    /\ rc' = [rc EXCEPT !.reachable = TRUE, !.recovered = TRUE]
    /\ UNCHANGED <<mainVars, mockVars, amqp, wss, bulk, mq, mem, cons>>

NextRc ==
    \/ ModuleLoad
    \/ ClientConnectResolves
    \/ ClientConnectRejects
    \/ RetryTimerFires
    \/ \E c \in Calls : EnsureConnectedCall(c)
    \/ \E c \in Calls : EnsureConnectedCheck(c)
    \/ \E c \in Calls : EnsureConnectedReturns(c)
    \/ RedisOutage
    \/ RedisRecovers

SpecRc == InitMock /\ [][NextRc]_vars

\* the client's own steps are taken when they stay possible
FairRc ==
    /\ WF_vars(ModuleLoad)
    /\ WF_vars(ClientConnectResolves)
    /\ WF_vars(ClientConnectRejects)
    /\ WF_vars(RetryTimerFires)
    /\ \A c \in Calls : WF_vars(EnsureConnectedCall(c))
    /\ \A c \in Calls : WF_vars(EnsureConnectedCheck(c))
    /\ \A c \in Calls : WF_vars(EnsureConnectedReturns(c))

SpecRcFair == SpecRc /\ FairRc

\* ---- the consumers registered with RabbitMQService.consumeMessage ----------
\* the three queues of main(), by the constant that names each
ConsumerQueues == {"ORDER_PROCESSING_QUEUE", "SECKILL_NOTIFICATIONS_QUEUE", "STATS_UPDATE_QUEUE"}

\* the broker delivers a message: the callback of channel.consume calls
\* handler(msg, channel) inside its try and does not await the promise.
\* valid: the content is JSON text
ConsumerDeliver(d, k, valid) ==
    /\ cons[d].pc = "ready"
    /\ \A e \in Deliveries : e < d => cons[e].pc # "ready"
    /\ cons' = [cons EXCEPT ![d] = [@ EXCEPT !.pc = "parse", !.queue = k, !.valid = valid]]
    /\ UNCHANGED <<mainVars, mockVars, amqp, wss, bulk, mq, mem, rc>>

\* the handler runs JSON.parse, which is outside its try block: a content
\* that is not JSON rejects the handler's promise, which nobody handles
HandlerParse(d) ==
    /\ cons[d].pc = "parse"
    /\ cons' = [cons EXCEPT ![d].pc = IF cons[d].valid THEN "work" ELSE "rejected"]
    /\ UNCHANGED <<mainVars, mockVars, amqp, wss, bulk, mq, mem, rc>>

\* the work of the handler succeeds: rabbitMQService.ackMessage(msg)
HandlerAcks(d) ==
    /\ cons[d].pc = "work"
    /\ cons' = [cons EXCEPT ![d].pc = "returned", ![d].acks = @ + 1]
    /\ UNCHANGED <<mainVars, mockVars, amqp, wss, bulk, mq, mem, rc>>

\* the work of the order or the notification handler throws inside its try:
\* the catch calls nackMessage(msg, false, true)
HandlerNacks(d) ==
    /\ cons[d].pc = "work"
    /\ cons[d].queue # "STATS_UPDATE_QUEUE"
    /\ cons' = [cons EXCEPT ![d].pc = "returned", ![d].nacks = @ + 1]
    /\ UNCHANGED <<mainVars, mockVars, amqp, wss, bulk, mq, mem, rc>>

NextCons ==
    \/ \E d \in Deliveries, k \in ConsumerQueues, valid \in BOOLEAN : ConsumerDeliver(d, k, valid)
    \/ \E d \in Deliveries : HandlerParse(d)
    \/ \E d \in Deliveries : HandlerAcks(d)
    \/ \E d \in Deliveries : HandlerNacks(d)

SpecCons == InitMock /\ [][NextCons]_vars

\* every step of a handler is taken when it stays possible
SpecConsFair ==
    /\ SpecCons
    /\ \A d \in Deliveries : WF_vars(HandlerParse(d))
    /\ \A d \in Deliveries : WF_vars(HandlerAcks(d) \/ HandlerNacks(d))

\* ---- properties -----------------------------------------------------------
Succeeded == {r \in Reqs : req[r].stockSuccess}

AllDone == \A r \in Reqs : Done(r)

Quiescent == \A r \in Reqs : req[r].pc \in {"idle", "done"}

\* C1: the number of decrementStock calls that returned true (and so the
\* number of orders) never exceeds the product's stock in the ledger.
NoOversell ==
    /\ Cardinality(Succeeded) <= dbStock
    /\ Len(orders) <= dbStock

\* C2: stock S, more than S distinct buyers with one request each and no
\* failure: exactly S requests succeed and the others are answered sold out.
ExactlyStockSucceed ==
    (/\ AllDone
     /\ productActive
     /\ NumReqs > dbStock
     /\ \A r1, r2 \in Reqs : r1 # r2 => req[r1].user # req[r2].user)
    => /\ Cardinality({r \in Reqs : req[r].resp = "success"}) = dbStock
       /\ Cardinality({r \in Reqs : req[r].resp = "sold_out"}) = NumReqs - dbStock

\* C3: no getStock call observes a negative stock: the stock figure a request
\* reads back after its purchase (and sends as stockLeft) is never below 0.
StockNeverReadsNegative == \A r \in Reqs : req[r].finalStock >= 0

\* C4: the Redis counter, when the key exists, is at most the product's stock
\* in the ledger.
CounterAtMostLedger == stockKey # <<>> => stockKey[1] <= dbStock

\* requests r1, r2 of one buyer, r1 the earlier one
SamePair(r1, r2) ==
    /\ r1 < r2
    /\ req[r2].pc # "idle"
    /\ req[r1].user = req[r2].user

\* r2 arrived while r1 was in flight / after r1 was answered
Concurrent(r1, r2) == SamePair(r1, r2) /\ r1 \notin req[r2].after
Sequential(r1, r2) == SamePair(r1, r2) /\ r1 \in req[r2].after

AcquireIsAtomicSetIfAbsent ==
    [][\A c \in Calls :
          mockCall[c].pc = "checked" /\ mockCall'[c].pc = "set"
          => ~MockRedisExists(mockCall[c].user)]_vars

\* C8: a missing counter is rebuilt to exactly the ledger's stock K before
\* anything else is applied to the key: the step that creates the key sets it
\* to K (no DECR or INCR is applied to the absent key).
ReconcileBeforeDecrement ==
    [][stockKey = <<>> /\ stockKey' # <<>> => stockKey' = <<dbStock>>]_vars

\* C9: with no purchase request in flight the counter, when present, equals
\* the ledger's stock minus the number of successful decrements so far.
QuiescentCounterIsLedgerMinusSold ==
    Quiescent /\ stockKey # <<>> => stockKey[1] = dbStock - Cardinality(Succeeded)

\* C10: a decrementStock call during which the store was unreachable or a
\* Redis operation failed never reports success.
FailClosedOnStoreFailure ==
    \A r \in Reqs : req[r].storeFault => ~req[r].stockSuccess

\* a decrementStock call hit a store failure, returned false, and the request
\* was answered sold out
FailClosedWitness ==
    \E r \in Reqs : req[r].storeFault /\ req[r].resp = "sold_out"

\* C11: a request whose acquireSeckillLock met a store failure (the SET
\* rejected, or the store unreachable) is refused: it applies no DECR to the
\* stock key, has no successful decrement and inserts no order.
LockFailureRefuses ==
    \A r \in Reqs :
        req[r].lockFault
        => /\ req[r].pc \in {"catch", "done"}
           /\ req[r].resp \in {"none", "already", "error"}
           /\ req[r].net = 0
           /\ ~req[r].stockSuccess
           /\ req[r].orderId = 0

\* the SET of acquireSeckillLock rejected and the request was refused
LockFailureWitness ==
    \E r \in Reqs : req[r].lockFault /\ req[r].resp = "already"

\* C12: a request made outside [startTime, endTime) acquires no reservation,
\* decrements no stock and creates no order, also for an active product.
AdmitsOnlyInWindow ==
    \A r \in Reqs :
        now # "open"
        => /\ ~req[r].lockAcquired
           /\ req[r].net = 0
           /\ req[r].orderId = 0

\* C13: within a request the successful decrement precedes the order insert
\* and the insert precedes the publish: every order was inserted by a request
\* whose decrement had succeeded, and every message accepted by the queue
\* names an order that is in the collection.
OrderingInRequest ==
    /\ \A r \in Reqs :
          /\ req[r].pc = "insertOrder" => req[r].stockSuccess
          /\ req[r].orderId # 0 =>
                /\ req[r].stockSuccess
                /\ req[r].orderId \in DOMAIN orders
                /\ orders[req[r].orderId].userId = req[r].user
    /\ \A o \in DOMAIN orders : \E r \in Reqs : req[r].orderId = o /\ req[r].stockSuccess
    /\ \A o \in published :
          /\ o \in DOMAIN orders
          /\ \E r \in Reqs : req[r].orderId = o /\ req[r].pc \notin {"insertOrder", "publish"}
    /\ \A i \in DOMAIN queue : queue[i].orderId \in published

\* a request decremented, inserted its order and published the message for it
OrderingWitness ==
    \E r \in Reqs :
        /\ req[r].stockSuccess
        /\ req[r].orderId \in published
        /\ \E i \in DOMAIN queue : queue[i].orderId = req[r].orderId

\* C14: a request answered success has had the message for its order accepted
\* by the order-processing queue; a publish that threw never leads to success.
SuccessImpliesAccepted ==
    \A r \in Reqs : req[r].resp = "success" => req[r].orderId \in published

\* a request was answered success after its message was queued
AcceptedWitness ==
    \E r \in Reqs :
        /\ req[r].resp = "success"
        /\ \E i \in DOMAIN queue : queue[i].orderId = req[r].orderId

FailureResponses == {"not_found", "already", "sold_out", "error"}

\* request r, which acquired the reservation, sends a failure response in this step
FailsHoldingReservation(r) ==
    /\ req[r].lockAcquired
    /\ ~Done(r)
    /\ req'[r].pc = "done"
    /\ req'[r].resp \in {"sold_out", "error"}

\* C15: when a request that acquired the reservation sends a failure
\* response, no reservation of its buyer remains.
NoReservationAfterFailure ==
    [][\A r \in Reqs : FailsHoldingReservation(r) => req[r].user \notin locks']_vars

\* C15 amended: such a request responds from a releaseSeckillLock call, and
\* if the DEL of that call was executed no reservation of its buyer remains.
ReleaseIssuedBeforeFailure ==
    [][\A r \in Reqs :
          FailsHoldingReservation(r)
          => /\ req[r].pc \in {"release400", "catch"}
             /\ req'[r].released = "yes" => req[r].user \notin locks']_vars

\* a request that held the reservation was answered sold out after its DEL
ReleaseWitness ==
    \E r \in Reqs :
        /\ req[r].lockAcquired
        /\ req[r].resp = "sold_out"
        /\ req[r].released = "yes"
        /\ req[r].user \notin locks

\* the records the handler's catch block has written at error severity for
\* request r: the error's message and stack (seckill.ts:126-127), and the
\* record of releaseSeckillLock when its DEL rejected (part_010:319-326);
\* userId 0 and productId FALSE: the record does not carry the field
CatchErrorRecords(r) ==
    (IF req[r].pc = "catch" \/ req[r].resp = "error"
     THEN {[source |-> "seckill", userId |-> 0, productId |-> FALSE]}
     ELSE {})
    \cup
    (IF req[r].resp = "error" /\ req[r].released = "failed"
     THEN {[source |-> "releaseSeckillLock", userId |-> req[r].user, productId |-> TRUE]}
     ELSE {})

\* C16: a request whose decrement succeeded and whose order insert failed is
\* not answered success, and an error record carrying the product and the
\* buyer of the consumed unit has been written.
ConsumedUnitIsSurfaced ==
    \A r \in Reqs :
        Done(r) /\ req[r].stockSuccess /\ req[r].orderId = 0
        => /\ req[r].resp # "success"
           /\ \E rec \in CatchErrorRecords(r) :
                 rec.userId = req[r].user /\ rec.productId

\* C17: a request answered with a failure has inserted no order and has
\* applied as many INCR as DECR to the stock key.
FailureLeavesNoPartialState ==
    \A r \in Reqs :
        Done(r) /\ req[r].resp \in FailureResponses
        => req[r].orderId = 0 /\ req[r].net = 0

\* C18: however often a message is delivered, the consumer writes the status
\* and updatedAt of its order once and sends one order_status push: a
\* delivery for an order that is already confirmed changes nothing.
SettlementIsIdempotent ==
    \A o \in OrderIds :
        /\ o \in DOMAIN orders => orders[o].updatedAt <= 1
        /\ orderStatusSent[o] <= 1

\* C19: a message whose handler fails on every delivery is redelivered at
\* most MAX_RETRY times: it is handed to the consumer at most MAX_RETRY + 1 times.
BoundedRedelivery ==
    \A o \in OrderIds : deliveries[o] <= MAX_RETRY + 1

\* the message of order o has left the queue for good
Removed(o) ==
    /\ o \in published
    /\ handler[o] = "idle"
    /\ \A i \in DOMAIN queue : queue[i].orderId # o

\* C20: a message leaves the queue for good only after the handler confirmed
\* its order (no step of the consumer or of the broker dead-letters a
\* message): a failed update never loses the message.
RemovedOnlyAfterSettlement ==
    \A o \in OrderIds : Removed(o) => orders[o].status = "confirmed"

\* C21: an order is created pending, and an existing order's row is changed
\* only by the consumer's handler for that order: no step of the purchase
\* path or of the admin endpoints changes its status or updatedAt.
OnlyConsumerWritesOrders ==
    [][/\ Len(orders') >= Len(orders)
       /\ \A o \in DOMAIN orders :
             orders'[o] # orders[o]
             => /\ handler[o] = "update"
                /\ orders'[o].userId = orders[o].userId
       /\ \A o \in DOMAIN orders' \ DOMAIN orders :
             orders'[o].status = "pending" /\ orders'[o].updatedAt = 0]_vars

\* an order was confirmed by the consumer, another was created after it, and
\* the admin sync-stock ran
OrderWriterWitness ==
    /\ Len(orders) = 2
    /\ orders[1].status = "confirmed"
    /\ orders[2].status = "pending"
    /\ syncAll = "set"

\* the await of decrementStock a request is at, in the order of the code
DecrementRank(q) ==
    CASE q.sub = "decr" -> 1
      [] q.sub = "incr" -> 2
      [] q.sub = "syncD" /\ q.syn = "find" -> 3
      [] q.sub = "syncD" /\ q.syn = "set" -> 4
      [] q.sub = "decr2" -> 5
      [] q.sub = "incr2" -> 6
      [] OTHER -> 0

\* C22: a decrementStock call only moves forward through DECR, INCR, one
\* reconciliation, one retry DECR and its INCR (so it issues at most two DECR
\* and one ledger read and never loops); it retries only when the reconciled
\* stock is above 0, and a retry that goes below zero does not report success.
DecrementTerminates ==
    [][\A r \in Reqs :
          req[r].pc = "decrement" /\ req'[r] # req[r]
          => /\ req'[r].pc = "decrement" => DecrementRank(req'[r]) > DecrementRank(req[r])
             /\ req[r].sub = "syncD" /\ req'[r].sub = "decr2" => req[r].productStock > 0
             /\ req[r].sub = "incr2" => ~req'[r].stockSuccess]_vars

\* the retry of a decrementStock call went below zero and is being undone
DecrementRetryWitness ==
    \E r \in Reqs : req[r].pc = "decrement" /\ req[r].sub = "incr2"

\* C25: no step of the purchase path, of the consumer or of the stock manager
\* changes Product.stock.
LedgerStockUnchanged == [][dbStock' = dbStock]_vars

\* a purchase succeeded, its order was confirmed and a reconciliation had
\* rebuilt the counter from the ledger
LedgerStockWitness ==
    /\ \E r \in Reqs : req[r].resp = "success"
    /\ \E o \in DOMAIN orders : orders[o].status = "confirmed"
    /\ Cardinality(Succeeded) > dbStock

\* C26: the stockLeft of a success response is the value the request's own
\* DECR produced.
StockLeftIsOwnDecrement ==
    \A r \in Reqs : req[r].resp = "success" => req[r].finalStock = req[r].ownStock

\* C30: no reset-lock request of a buyer v deletes the reservation of another
\* buyer u.
BuyerCannotResetOthers ==
    [][\A v, u \in Users : v # u => ~ResetLock(v, u)]_vars

\* one step keeps reconnectAttempts within maxReconnectAttempts, sets at most
\* maxReconnectAttempts timers once the broker is gone for good, and takes
\* reconnectAttempts back to 0 only in the step that completes connect()
ReconnectBoundedStep ==
    /\ amqp.reconnectAttempts <= maxReconnectAttempts
    /\ amqp'.reconnectAttempts <= maxReconnectAttempts
    /\ amqp'.sinceDown <= maxReconnectAttempts
    /\ amqp'.timers <= maxReconnectAttempts
    /\ amqp'.reconnectAttempts < amqp.reconnectAttempts
          => /\ amqp'.reconnectAttempts = 0
             /\ amqp.connect = "channel"
             /\ amqp.up
             /\ IsConnected(amqp')

\* C23: with the broker gone for good at most maxReconnectAttempts reconnect
\* timers are set, reconnectAttempts stays within maxReconnectAttempts and is
\* reset only by a successful connect(), and the attempts the timers start
\* are reconnectDelay apart.
ReconnectBoundedAndSpaced ==
    [][ReconnectBoundedStep /\ ~amqp'.unspaced]_vars

\* the bounds alone
ReconnectBounded == [][ReconnectBoundedStep]_vars

\* C24: a publishMessage call made with the budget used up and the broker
\* gone reports false or throws, and while it waits, the connect() it waits
\* for is in flight.
PublishReportsUnavailable ==
    /\ amqp.pub.pc = "await" => amqp.connect # "idle"
    /\ amqp.pub.pc = "done" /\ amqp.pub.exhausted => amqp.pub.result \in {"false", "threw"}

\* such a call returned false while another connect() was in flight
PublishUnavailableWitness ==
    /\ amqp.pub.pc = "done"
    /\ amqp.pub.exhausted
    /\ amqp.pub.result = "false"
    /\ amqp.isConnecting

\* the writes a step made to socket s
Written(s) == wss'.sent[s] - wss.sent[s]

\* C27: sendToUser(u, m) writes m once to the socket the map holds for u if
\* that socket is OPEN and writes nothing otherwise; broadcast(m) writes m
\* once to every socket the map holds that is OPEN and to no other socket;
\* neither changes the map.
PushWritesOnlyToOpenRegistered ==
    [][/\ wss'.op.kind # "none" =>
            /\ wss'.connections = wss.connections
            /\ wss'.sock = wss.sock
       /\ wss'.op.kind = "sendToUser" =>
            \A s \in Sockets :
                Written(s) = IF /\ wss.connections[wss'.op.user] = s
                                /\ wss.sock[s].readyState = "OPEN"
                             THEN 1 ELSE 0
       /\ wss'.op.kind = "broadcast" =>
            \A s \in Sockets :
                Written(s) = IF /\ \E u \in Users : wss.connections[u] = s
                                /\ wss.sock[s].readyState = "OPEN"
                             THEN 1 ELSE 0]_vars

\* a broadcast wrote to the OPEN socket of one buyer and passed over the
\* closing socket of another and an OPEN socket the map no longer holds
PushWitness ==
    /\ wss.op.kind = "broadcast"
    /\ \E s, t, x \in Sockets :
          /\ wss.sock[s].readyState = "OPEN" /\ wss.sent[s] = 1
          /\ \E u \in Users : wss.connections[u] = s
          /\ wss.sock[t].readyState = "CLOSING" /\ wss.sent[t] = 0
          /\ \E u \in Users : wss.connections[u] = t
          /\ wss.sock[x].readyState = "OPEN" /\ wss.sent[x] = 0
          /\ \A u \in Users : wss.connections[u] # x

\* the counter of product p holds the durable stock of p
Synced(p) == bulk.counter[p] = <<bulk.ledger[p].stock>>

\* C28: when syncAllStock has returned, the counter of every product with a
\* numeric stock equals that stock, but for the products whose own initStock
\* failed.
BulkSyncEqualsLedger ==
    bulk.pc = "returned" =>
        \A p \in Products :
            IsNumber(bulk.ledger[p]) /\ p \notin bulk.failed => Synced(p)

\* the same for the calls that read the ledger
BulkSyncWhenLedgerRead ==
    bulk.pc = "returned" /\ ~bulk.findFailed =>
        \A p \in Products :
            IsNumber(bulk.ledger[p]) /\ p \notin bulk.failed => Synced(p)

\* C29: createQueue on a name the maps hold changes neither its messages nor
\* its consumers (nor any other queue), and createQueue twice gives what
\* createQueue once gives.
DeclareIsIdempotent ==
    [][/\ \A n \in QueueNames :
            CreateQueue(CreateQueue(mq, n), n) = CreateQueue(mq, n)
       /\ mq'.op = "createQueue" /\ mq.q[mq'.name].exists => mq'.q = mq.q
       /\ mq'.op = "createQueue" =>
            /\ mq'.q[mq'.name].exists
            /\ \A n \in QueueNames \ {mq'.name} : mq'.q[n] = mq.q[n]]_vars

\* createQueue has just run on a queue that holds a message and a consumer
DeclareWitness ==
    /\ mq.op = "createQueue"
    /\ mq.q[mq.name].messages # <<>>
    /\ mq.q[mq.name].consumers > 0

\* C31: in the in-memory variant no decrementStock call returns true on a key
\* that held 0 when it was decremented, and the calls that return true are
\* no more than the stock the key was set to.
MemDecrementIsAtomic ==
    /\ \A c \in Calls :
          mem.call[c].result => mem.call[c].before # <<>> /\ mem.call[c].before[1] >= 1
    /\ Cardinality({c \in Calls : mem.call[c].result}) <= dbStock

\* C32: when a connection attempt has failed and Redis is reachable again
\* with attempts left, the client is eventually connected; and no retry
\* timer fires without a connection being attempted.
InitialRetryConnects ==
    /\ [](~rc.skipped)
    /\ (rc.failed /\ rc.recovered /\ rc.attempts < MAX_CONNECTION_ATTEMPTS) ~> rc.open

\* the sum of the quantity fields of the first n orders
RECURSIVE UnitsSold(_)
UnitsSold(n) == IF n = 0 THEN 0 ELSE orders[n].quantity + UnitsSold(n - 1)

\* C33: the quantities of the orders sum to no more than the durable stock,
\* and a successful purchase has taken from the counter the quantity its
\* order records.
UnitsSoldWithinStock ==
    /\ UnitsSold(Len(orders)) <= dbStock
    /\ \A r \in Reqs :
          req[r].resp = "success" => req[r].net = orders[req[r].orderId].quantity

\* C34: the reservation of a buyer u is deleted only by the TTL, by
\* reset-lock, or by a step of a request of u that had acquired it.
OnlyOwnerReleases ==
    [][\A u \in Users :
          u \in locks /\ u \notin locks' =>
              \/ ExpireLock(u)
              \/ \E v \in Users : ResetLock(v, u)
              \/ \E r \in Reqs : /\ req[r].user = u
                                  /\ req[r].lockAcquired
                                  /\ req'[r] # req[r]]_vars

\* C35: every order that is inserted eventually leaves the status pending.
EveryOrderSettles ==
    \A o \in OrderIds :
        (o <= Len(orders)) ~> (o <= Len(orders) /\ orders[o].status # "pending")

\* no processMessage call of queue n is scheduled or waits for its consumers:
\* nothing more happens to n unless something is published
MqQuiescent(n) == mq.q[n].scheduled = 0 /\ mq.q[n].inflight = <<>>

\* C36: a queue that has a consumer holds no message once its processing
\* is quiescent, so every message reaches the consumer with no further
\* publish.
EveryMessageReachesConsumer ==
    \A n \in QueueNames :
        MqQuiescent(n) /\ mq.q[n].consumers > 0 => mq.q[n].messages = <<>>

\* C37: every delivery is eventually acknowledged or negatively acknowledged,
\* and never more than once.
EveryDeliverySettled ==
    /\ [](\A d \in Deliveries : cons[d].acks + cons[d].nacks <= 1)
    /\ \A d \in Deliveries :
          (cons[d].pc # "ready") ~> (cons[d].acks + cons[d].nacks = 1)

\* the socket upgraded last for buyer u (0: none)
Newest(u) ==
    LET own == {s \in Sockets : wss.sock[s].owner = u}
    IN  IF own = {} THEN 0 ELSE CHOOSE s \in own : \A t \in own : t <= s

\* C38: once the 'close' and 'error' handlers of the sockets that left OPEN
\* have run, a buyer who has an OPEN socket has an entry in the connections
\* map and the entry is an OPEN socket; and the socket a buyer opened last
\* stays registered while it is OPEN, whatever happens to the older ones.
RegistryPointsToOpen ==
    \A u \in Users :
        /\ ( /\ \A s \in Sockets : wss.sock[s].readyState # "CLOSING"
             /\ \E s \in Sockets : wss.sock[s].owner = u /\ wss.sock[s].readyState = "OPEN" )
            => /\ wss.connections[u] # 0
               /\ wss.sock[wss.connections[u]].readyState = "OPEN"
        /\ (Newest(u) # 0 /\ wss.sock[Newest(u)].readyState = "OPEN")
            => wss.connections[u] = Newest(u)

\* the timers scheduled since the last connect attempt began (amqp.burst
\* counts them): one loss of the connection schedules one
EpisodeSchedulesOnce == amqp.burst <= 1

\* C39: one loss of the connection schedules one reconnect timer, and never
\* more than one reconnect timer is pending, never more than one connect() is
\* in flight, and the two never at once.
OneReconnectOutstanding ==
    /\ EpisodeSchedulesOnce
    /\ amqp.timers + (IF amqp.connect # "idle" THEN 1 ELSE 0) <= 1

====
